---------------------------- MODULE Spec2Model ----------------------------
(***************************************************************************)
(* LSTimer (src/src/main.rs): the timing state machine and the statistics  *)
(* engine of CubeTimer.                                                    *)
(*                                                                         *)
(* Every method of CubeTimer that takes &mut self is an operator from the  *)
(* fields of self (a record) to the fields after the call, so that a       *)
(* handler which calls other methods is the composition of their           *)
(* operators, in the order of the source.  An action applies one handler   *)
(* to the current fields.                                                  *)
(*                                                                         *)
(* Option<T> is a sequence of length at most one: None is << >> and        *)
(* Some(x) is << x >>.  Instants and Durations are counted in              *)
(* milliseconds; the Instant of construction is 0.  Vec indices are the    *)
(* source's (from 0); records[i] of the source is records[i + 1] here.     *)
(*                                                                         *)
(* Not modelled: the scramble text and the timestamp of a record (random   *)
(* and wall-clock values nothing reads back), last_time, the theme, the    *)
(* animation scale, the files written by save_data and the fields of       *)
(* ui_state other than the three indices and texts of the record editor.   *)
(***************************************************************************)
EXTENDS Integers, Sequences, FiniteSets, TLC

VARIABLES
    now,               \* the value Instant::now() returns
    state,             \* CubeTimer.state
    start_time,        \* CubeTimer.start_time
    current_time,      \* CubeTimer.current_time
    current_event,     \* CubeTimer.current_event
    available_events,  \* CubeTimer.available_events
    custom_events,     \* CubeTimer.custom_events
    records,           \* CubeTimer.records
    statistics,        \* CubeTimer.statistics
    space_pressed,     \* CubeTimer.space_pressed
    space_hold_start,  \* CubeTimer.space_hold_start
    editing_comment_index, \* CubeTimer.ui_state.editing_comment_index
    comment_text,      \* CubeTimer.ui_state.comment_text
    confirm_delete_index,  \* CubeTimer.ui_state.confirm_delete_index
    key_held,          \* the physical space key: Some(t) when down since t
    editing_target,    \* the duration of the record the pending comment
                       \* edit was opened on
    last_op,           \* the handler that ran last and the branch it took
    last_state         \* the phase that handler found

vars == << now, state, start_time, current_time, current_event,
           available_events, custom_events, records, statistics, space_pressed,
           space_hold_start, editing_comment_index, comment_text,
           confirm_delete_index, key_held, editing_target, last_op,
           last_state >>

---------------------------------------------------------------------------
(* Bounds *)

\* The clock stops advancing at MaxNow.
MaxNow == 900

\* A session that edits comments starts from up to MaxCommented records.
MaxCommented == 3

\* The clock of a session that edits its custom events stops here.
MaxNowCustom == 300

\* The list of available events never grows beyond MaxAvailable entries.
MaxAvailable == 4

\* The clock of a session that uses every handler stops here.
MaxNowSession == 300

\* A session that uses every handler starts from up to MaxSessionLoaded
\* records.
MaxSessionLoaded == 1

\* The clock of a session driven by the physical key stops here.
MaxNowKeyboard == 900

\* A session in the record editor starts from up to MaxEdited records.
MaxEdited == 3

\* The clock of a session that starts from a loaded history stops here.
MaxNowLoaded == 300

\* History never grows beyond MaxRecords records.
MaxRecords == 5

\* The records.json of a session that only edits its history holds at most
\* MaxHistory records.
MaxHistory == 6

\* A loaded records.json holds at most MaxLoaded records.
MaxLoaded == 4

---------------------------------------------------------------------------
(* Data model *)

None == << >>

Some(x) == << x >>

is_some(o) == o # None

is_none(o) == o = None

TimerState == {"Ready", "Preparing", "Running", "Stopped"}

\* The first two entries of the list built by CubeTimer::default.
StandardEvents == << "Cube3x3", "Cube2x2" >>

Penalty == {"Plus2", "DNF"}

\* Option<Penalty>
PenaltyOption == {None} \cup {Some(p) : p \in Penalty}

\* key_preparation_time: Duration::from_millis(300)
KeyPreparationTime == 300

\* CubeEvent::Custom(name); a custom event is never equal to a standard one.
Custom(name) == "Custom:" \o name

\* struct CustomEvent, as add_custom_event builds it
CustomEvent(name, moves) ==
    [name |-> name, scramble_length |-> 20, moves |-> moves]

TimeRecord(time, event) ==
    [time |-> time, event |-> event, penalty |-> None, comment |-> ""]

NoStatistics ==
    [best |-> None, worst |-> None, current_ao5 |-> None,
     current_ao12 |-> None, current_ao100 |-> None, mean |-> None]

\* The fields of self.
Self ==
    [state |-> state, start_time |-> start_time,
     current_time |-> current_time, current_event |-> current_event,
     available_events |-> available_events,
     custom_events |-> custom_events, records |-> records,
     statistics |-> statistics, space_pressed |-> space_pressed,
     space_hold_start |-> space_hold_start,
     editing_comment_index |-> editing_comment_index,
     comment_text |-> comment_text,
     confirm_delete_index |-> confirm_delete_index]

\* CubeTimer::default
Default ==
    [state |-> "Ready", start_time |-> None, current_time |-> 0,
     current_event |-> StandardEvents[1],
     available_events |-> StandardEvents, custom_events |-> << >>,
     records |-> << >>,
     statistics |-> NoStatistics, space_pressed |-> FALSE,
     space_hold_start |-> None, editing_comment_index |-> None,
     comment_text |-> "", confirm_delete_index |-> None]

---------------------------------------------------------------------------
(* Helpers on Vec<Duration> *)

\* Instant::duration_since: saturates at zero
duration_since(later, earlier) == IF later >= earlier THEN later - earlier ELSE 0

RECURSIVE Sum(_)
Sum(times) == IF times = << >> THEN 0 ELSE Head(times) + Sum(Tail(times))

RECURSIVE Min(_)
Min(times) ==
    IF Len(times) = 1 THEN times[1]
    ELSE LET m == Min(Tail(times))
         IN  IF Head(times) <= m THEN Head(times) ELSE m

RECURSIVE Max(_)
Max(times) ==
    IF Len(times) = 1 THEN times[1]
    ELSE LET m == Max(Tail(times))
         IN  IF Head(times) >= m THEN Head(times) ELSE m

RECURSIVE Insert(_, _)
Insert(x, sorted) ==
    IF sorted = << >> THEN << x >>
    ELSE IF x <= Head(sorted) THEN << x >> \o sorted
    ELSE << Head(sorted) >> \o Insert(x, Tail(sorted))

\* Vec::sort, ascending
RECURSIVE Sort(_)
Sort(times) ==
    IF times = << >> THEN << >> ELSE Insert(Head(times), Sort(Tail(times)))

\* times.iter().rev().take(n): the last n entries, newest first
RevTake(times, n) ==
    LET k == IF n <= Len(times) THEN n ELSE Len(times)
    IN  [i \in 1..k |-> times[Len(times) + 1 - i]]

\* (len as f32 * 0.05).ceil() as usize
RemoveCount(len) == (len * 5 + 99) \div 100

---------------------------------------------------------------------------
(* Statistics engine *)

\* fn calculate_average(times: &[Duration]) -> Option<Duration>
calculate_average(times) ==
    IF Len(times) < 5 THEN None
    ELSE LET sorted       == Sort(times)
             remove_count == RemoveCount(Len(times))
             trimmed      == SubSeq(sorted, remove_count + 1,
                                    Len(sorted) - remove_count)
         IN  IF remove_count * 2 >= Len(times) THEN None
             ELSE Some(Sum(trimmed) \div Len(trimmed))

\* fn calculate_averages(&mut self, times: &[Duration])
calculate_averages(self, times) ==
    LET s5   == IF Len(times) >= 5
                THEN [self.statistics EXCEPT
                          !.current_ao5 = calculate_average(RevTake(times, 5))]
                ELSE self.statistics
        s12  == IF Len(times) >= 12
                THEN [s5 EXCEPT
                          !.current_ao12 = calculate_average(RevTake(times, 12))]
                ELSE s5
        s100 == IF Len(times) >= 100
                THEN [s12 EXCEPT
                          !.current_ao100 = calculate_average(RevTake(times, 100))]
                ELSE s12
    IN  [self EXCEPT !.statistics = s100]

\* fn calculate_basic_stats(&mut self, times: &[Duration])
calculate_basic_stats(self, times) ==
    [self EXCEPT !.statistics =
        [self.statistics EXCEPT
            !.best  = Some(Min(times)),
            !.worst = Some(Max(times)),
            !.mean  = Some(Sum(times) \div Len(times))]]

\* The filter closure of calculate_statistics.
StatisticsFilter(self, r) ==
    r.event = self.current_event /\ is_none(r.penalty)

\* current_event_times of calculate_statistics
CurrentEventTimes(self) ==
    LET kept == SelectSeq(self.records, LAMBDA r : StatisticsFilter(self, r))
    IN  [i \in 1..Len(kept) |-> kept[i].time]

\* fn calculate_statistics(&mut self)
calculate_statistics(self) ==
    LET current_event_times == CurrentEventTimes(self)
    IN  IF current_event_times = << >>
        THEN [self EXCEPT !.statistics = NoStatistics]
        ELSE calculate_averages(
                 calculate_basic_stats(self, current_event_times),
                 current_event_times)

---------------------------------------------------------------------------
(* Timer state machine *)

\* save_time_record that pushes the record twice
save_time_record_twice(self) ==
    LET record == TimeRecord(self.current_time, self.current_event)
    IN  calculate_statistics(
            [self EXCEPT !.records = Append(Append(self.records, record),
                                            record)])

\* fn save_time_record(&mut self)
save_time_record(self) ==
    calculate_statistics(
        [self EXCEPT !.records =
            Append(self.records,
                   TimeRecord(self.current_time, self.current_event))])

\* stop_timer that records the elapsed time of the last tick instead of
\* reading the clock
stop_timer_stale(self, t) ==
    LET saved == IF is_some(self.start_time)
                 THEN save_time_record(self)
                 ELSE self
    IN  [saved EXCEPT !.state = "Stopped", !.start_time = None]

\* fn stop_timer(&mut self, now: Instant)
stop_timer(self, t) ==
    LET saved == IF is_some(self.start_time)
                 THEN save_time_record(
                          [self EXCEPT !.current_time =
                              duration_since(t, self.start_time[1])])
                 ELSE self
    IN  [saved EXCEPT !.state = "Stopped", !.start_time = None]

\* start_timer that forgets the start instant
start_timer_no_instant(self, t) ==
    [self EXCEPT !.state = "Running", !.current_time = 0]

\* fn start_timer(&mut self, now: Instant)
start_timer(self, t) ==
    [self EXCEPT !.state = "Running", !.start_time = Some(t),
                 !.current_time = 0]

\* try_start_timer with > in place of >=
try_start_timer_strict(self, t) ==
    IF is_some(self.space_hold_start)
    THEN LET hold_duration == duration_since(t, self.space_hold_start[1])
         IN  IF hold_duration > KeyPreparationTime
             THEN start_timer(self, t)
             ELSE [self EXCEPT !.state = "Ready"]
    ELSE self

\* try_start_timer that starts the timer after a hold of any length
try_start_timer_any_hold(self, t) ==
    IF is_some(self.space_hold_start)
    THEN start_timer(self, t)
    ELSE self

\* fn try_start_timer(&mut self, now: Instant)
try_start_timer(self, t) ==
    IF is_some(self.space_hold_start)
    THEN LET hold_duration == duration_since(t, self.space_hold_start[1])
         IN  IF hold_duration >= KeyPreparationTime
             THEN start_timer(self, t)
             ELSE [self EXCEPT !.state = "Ready"]
    ELSE self

\* handle_space_press that records the hold start only when a preparation
\* begins
handle_space_press_hold_on_prepare(self, t) ==
    LET held == [self EXCEPT !.space_pressed = TRUE]
    IN  CASE held.state = "Ready"   -> [held EXCEPT !.state = "Preparing",
                                                    !.space_hold_start = Some(t)]
          [] held.state = "Running" -> stop_timer(held, t)
          [] held.state = "Stopped" -> [held EXCEPT !.state = "Preparing",
                                                    !.space_hold_start = Some(t)]
          [] OTHER                  -> held

\* handle_space_press that does not record the hold start
handle_space_press_no_hold(self, t) ==
    LET held == [self EXCEPT !.space_pressed = TRUE]
    IN  CASE held.state = "Ready"   -> [held EXCEPT !.state = "Preparing"]
          [] held.state = "Running" -> stop_timer(held, t)
          [] held.state = "Stopped" -> [held EXCEPT !.state = "Preparing"]
          [] OTHER                  -> held

\* handle_space_press that leaves the pressed flag as it was
handle_space_press_flag_unset(self, t) ==
    LET held == [self EXCEPT !.space_hold_start = Some(t)]
    IN  CASE held.state = "Ready"   -> [held EXCEPT !.state = "Preparing"]
          [] held.state = "Running" -> stop_timer(held, t)
          [] held.state = "Stopped" -> [held EXCEPT !.state = "Preparing"]
          [] OTHER                  -> held

\* fn handle_space_press(&mut self, now: Instant)
handle_space_press(self, t) ==
    LET held == [self EXCEPT !.space_pressed = TRUE,
                             !.space_hold_start = Some(t)]
    IN  CASE held.state = "Ready"   -> [held EXCEPT !.state = "Preparing"]
          [] held.state = "Running" -> stop_timer(held, t)
          [] held.state = "Stopped" -> [held EXCEPT !.state = "Preparing"]
          [] OTHER                  -> held

\* handle_space_release without the final clearing of space_hold_start
handle_space_release_keeps_hold(self, t) ==
    LET released == [self EXCEPT !.space_pressed = FALSE]
    IN  CASE released.state = "Preparing" -> try_start_timer(released, t)
          [] released.state = "Stopped"   -> [released EXCEPT !.state = "Ready"]
          [] OTHER                        -> released

\* handle_space_release whose Stopped arm tries to start the timer, as the
\* Preparing arm does
handle_space_release_stopped_starts(self, t) ==
    LET released == [self EXCEPT !.space_pressed = FALSE]
        matched  == CASE released.state = "Preparing" -> try_start_timer(released, t)
                      [] released.state = "Stopped"   -> try_start_timer(released, t)
                      [] OTHER                        -> released
    IN  [matched EXCEPT !.space_hold_start = None]

\* handle_space_release without the Stopped arm
handle_space_release_stays_stopped(self, t) ==
    LET released == [self EXCEPT !.space_pressed = FALSE]
        matched  == CASE released.state = "Preparing" -> try_start_timer(released, t)
                      [] OTHER                        -> released
    IN  [matched EXCEPT !.space_hold_start = None]

\* fn handle_space_release(&mut self, now: Instant)
handle_space_release(self, t) ==
    LET released == [self EXCEPT !.space_pressed = FALSE]
        matched  == CASE released.state = "Preparing" -> try_start_timer(released, t)
                      [] released.state = "Stopped"   -> [released EXCEPT !.state = "Ready"]
                      [] OTHER                        -> released
    IN  [matched EXCEPT !.space_hold_start = None]

\* handle_space_key without the suppression of repeated edges
handle_space_key_unfiltered(self, pressed, t) ==
    IF pressed THEN handle_space_press(self, t)
    ELSE handle_space_release(self, t)

\* handle_space_key that takes every key event for a toggle of the key
handle_space_key_toggle(self, pressed, t) ==
    IF ~self.space_pressed THEN handle_space_press(self, t)
    ELSE handle_space_release(self, t)

\* handle_space_key that filters repeated releases but hands every press on
handle_space_key_repeats_press(self, pressed, t) ==
    IF pressed THEN handle_space_press(self, t)
    ELSE IF self.space_pressed THEN handle_space_release(self, t)
    ELSE self

\* fn handle_space_key(&mut self, pressed: bool)
handle_space_key(self, pressed, t) ==
    IF pressed /\ ~self.space_pressed THEN handle_space_press(self, t)
    ELSE IF ~pressed /\ self.space_pressed THEN handle_space_release(self, t)
    ELSE self

\* The branch handle_space_key takes.
space_key_branch(self, pressed) ==
    IF pressed /\ ~self.space_pressed THEN "press"
    ELSE IF ~pressed /\ self.space_pressed THEN "release"
    ELSE IF pressed THEN "press_ignored"
    ELSE "release_ignored"

\* fn handle_input(&mut self, ctx); key_pressed and key_released are what
\* the frame's input reports for the space key
handle_input(self, key_pressed, key_released, t) ==
    IF key_pressed THEN handle_space_key(self, TRUE, t)
    ELSE IF key_released THEN handle_space_key(self, FALSE, t)
    ELSE self

\* The branch handle_input takes.
input_branch(self, key_pressed, key_released) ==
    IF key_pressed THEN space_key_branch(self, TRUE)
    ELSE IF key_released THEN space_key_branch(self, FALSE)
    ELSE "no_key"

\* handle_timer_updates that adds the time since the start to the elapsed
\* time of the previous tick
handle_timer_updates_additive(self, t) ==
    IF self.state = "Running" /\ is_some(self.start_time)
    THEN [self EXCEPT !.current_time =
             @ + duration_since(t, self.start_time[1])]
    ELSE self

\* The first part of handle_timer_updates: the elapsed time of a running solve.
handle_timer_updates(self, t) ==
    IF self.state = "Running" /\ is_some(self.start_time)
    THEN [self EXCEPT !.current_time = duration_since(t, self.start_time[1])]
    ELSE self

---------------------------------------------------------------------------
(* History mutation *)

\* Vec::remove(index)
Remove(seq, index) ==
    [i \in 1..(Len(seq) - 1) |-> IF i <= index THEN seq[i] ELSE seq[i + 1]]

\* delete_time with the index clamped to the last record
delete_time_clamped(self, index) ==
    IF self.records # << >>
    THEN LET last == Len(self.records) - 1
             at == IF index < last THEN index ELSE last
         IN  calculate_statistics(
                 [self EXCEPT !.records = Remove(self.records, at)])
    ELSE self

\* fn delete_time(&mut self, index: usize)
delete_time(self, index) ==
    IF index < Len(self.records)
    THEN LET computed == calculate_statistics(
                 [self EXCEPT !.records = Remove(self.records, index)])
         IN  [computed EXCEPT !.confirm_delete_index = None]
    ELSE self

\* fn update_time_comment(&mut self, index: usize, comment: String)
update_time_comment(self, index, comment) ==
    IF index < Len(self.records)
    THEN [self EXCEPT !.records[index + 1].comment = comment]
    ELSE self

\* apply_penalty that also adds the two seconds of a +2 to the duration
apply_penalty_adds_time(self, index, penalty) ==
    IF index < Len(self.records)
    THEN calculate_statistics(
             [self EXCEPT !.records[index + 1].penalty = penalty,
                          !.records[index + 1].time =
                              IF penalty = Some("Plus2") THEN @ + 2000 ELSE @])
    ELSE self

\* fn apply_penalty(&mut self, index: usize, penalty: Option<Penalty>)
apply_penalty(self, index, penalty) ==
    IF index < Len(self.records)
    THEN calculate_statistics(
             [self EXCEPT !.records[index + 1].penalty = penalty])
    ELSE self

\* fn handle_comment_button_click(&mut self, actual_index, record)
handle_comment_button_click(self, actual_index) ==
    IF self.editing_comment_index = Some(actual_index)
    THEN LET closed == [self EXCEPT !.editing_comment_index = None]
             saved  == update_time_comment(closed, actual_index,
                                           self.comment_text)
         IN  [saved EXCEPT !.comment_text = ""]
    ELSE [self EXCEPT
             !.editing_comment_index = Some(actual_index),
             !.comment_text = self.records[actual_index + 1].comment]

\* The tick button of render_comment_and_penalty_editor
save_comment_click(self, actual_index) ==
    LET saved == update_time_comment(self, actual_index, self.comment_text)
    IN  [saved EXCEPT !.editing_comment_index = None, !.comment_text = ""]

\* The cross button of render_comment_and_penalty_editor
cancel_comment_click(self) ==
    [self EXCEPT !.editing_comment_index = None, !.comment_text = ""]

\* The bin button of render_time_entry_buttons
delete_button_click(self, actual_index) ==
    [self EXCEPT !.confirm_delete_index = Some(actual_index)]

\* "Yes, delete" of render_delete_confirmation
confirm_delete_click(self) ==
    IF is_some(self.confirm_delete_index)
    THEN delete_time(self, self.confirm_delete_index[1])
    ELSE self

\* "No, cancel" of render_delete_confirmation
cancel_delete_click(self) == [self EXCEPT !.confirm_delete_index = None]

\* The click handler of render_enhanced_event_selector.
select_event(self, event) ==
    calculate_statistics([self EXCEPT !.current_event = event])

---------------------------------------------------------------------------
(* Custom events *)

\* str::trim(), on the texts the model types
trim(text) ==
    CASE text = " " -> ""
      [] text = " U" -> "U"
      [] OTHER -> text

\* str::trim().is_empty() of a text given as its comma-separated parts: a
\* text with a comma in it is never blank.
trim_is_empty(parts) == Len(parts) = 1 /\ trim(parts[1]) = ""

\* HashMap::insert
MapInsert(map, key, value) ==
    [k \in DOMAIN map \cup {key} |-> IF k = key THEN value ELSE map[k]]

\* HashMap::remove
MapRemove(map, key) == [k \in DOMAIN map \ {key} |-> map[k]]

\* fn add_custom_event(&mut self); name is the content of
\* new_custom_event_name and parts are the comma-separated parts of
\* new_custom_moves, both cleared by the call
add_custom_event(self, name, parts) ==
    IF trim(name) = "" \/ trim_is_empty(parts) THEN self
    ELSE LET moves == [i \in 1..Len(parts) |-> trim(parts[i])]
         IN  [self EXCEPT
                 !.custom_events =
                     MapInsert(@, name, CustomEvent(name, moves)),
                 !.available_events = Append(@, Custom(name))]

\* remove_custom_event that leaves the active event as it is
remove_custom_event_keeps_active(self, name) ==
    [self EXCEPT
        !.custom_events = MapRemove(@, name),
        !.available_events =
            SelectSeq(@, LAMBDA event : event # Custom(name))]

\* fn remove_custom_event(&mut self, name: &str)
remove_custom_event(self, name) ==
    LET removed == [self EXCEPT
                       !.custom_events = MapRemove(@, name),
                       !.available_events =
                           SelectSeq(@, LAMBDA event : event # Custom(name))]
    IN  IF removed.current_event = Custom(name)
        THEN [removed EXCEPT !.current_event = removed.available_events[1]]
        ELSE removed

\* Vec::contains
Contains(list, x) == \E i \in 1..Len(list) : list[i] = x

\* The loop of load_custom_events over the keys, in the order the map
\* yields them
RECURSIVE PushNewCustom(_, _)
PushNewCustom(list, names) ==
    IF names = << >> THEN list
    ELSE LET custom_event == Custom(Head(names))
         IN  PushNewCustom(IF Contains(list, custom_event) THEN list
                           ELSE Append(list, custom_event),
                           Tail(names))

\* fn load_custom_events(&mut self, app_dir), with custom_events.json
\* holding loaded and the map yielding its keys in the order of keys
load_custom_events(self, loaded, keys) ==
    [self EXCEPT !.custom_events = loaded,
                 !.available_events = PushNewCustom(@, keys)]

---------------------------------------------------------------------------
(* Construction *)

\* The histories load_records may find in records.json: the first n solves
\* of a session of 3x3x3 solves.
LoadedTimes == << 900, 950, 1000, 1050, 1100, 1150, 1200, 1250 >>

LoadedRecords(n) ==
    [i \in 1..n |-> TimeRecord(LoadedTimes[i], StandardEvents[1])]

\* fn load_data(&mut self), with records.json holding loaded
load_data(self, loaded) ==
    calculate_statistics([self EXCEPT !.records = loaded])

\* The orders in which a HashMap may yield its keys
KeyOrders(map) ==
    {keys \in [1..Cardinality(DOMAIN map) -> DOMAIN map] :
        \A i, j \in DOMAIN keys : i # j => keys[i] # keys[j]}

\* A custom_events.json with the events of names, as save_custom_events
\* writes it
CustomEventsFile(names) ==
    [name \in names |-> CustomEvent(name, << "R", "U" >>)]

\* fn load_data(&mut self), with records.json holding loaded and
\* custom_events.json holding custom, its keys yielded in the order of keys
load_data_custom(self, loaded, custom, keys) ==
    calculate_statistics(
        load_custom_events([self EXCEPT !.records = loaded], custom, keys))

---------------------------------------------------------------------------
(* Actions *)

\* The fields after the handler, and what the handler was.
CommitFields(self, op) ==
    /\ state' = self.state
    /\ start_time' = self.start_time
    /\ current_time' = self.current_time
    /\ current_event' = self.current_event
    /\ available_events' = self.available_events
    /\ custom_events' = self.custom_events
    /\ records' = self.records
    /\ statistics' = self.statistics
    /\ space_pressed' = self.space_pressed
    /\ space_hold_start' = self.space_hold_start
    /\ editing_comment_index' = self.editing_comment_index
    /\ comment_text' = self.comment_text
    /\ confirm_delete_index' = self.confirm_delete_index
    /\ last_op' = op
    /\ last_state' = state

\* A handler that is neither a frame of keyboard input nor a click in the
\* comment editor.
Commit(self, op) ==
    /\ CommitFields(self, op)
    /\ UNCHANGED << key_held, editing_target >>

\* The clock moves on between two handlers.
ClockSteps == {KeyPreparationTime - 1, KeyPreparationTime}

Advance(max) ==
    \E d \in ClockSteps :
        /\ now + d <= max
        /\ now' = now + d
        /\ Commit(Self, "advance")

\* handle_input on a frame whose input holds any mix of a press and a release
\* of the space key
HandleInput ==
    \E key_pressed \in BOOLEAN, key_released \in BOOLEAN :
        /\ (key_pressed /\ ~space_pressed /\ state = "Running")
               => Len(records) < MaxRecords
        /\ Commit(handle_input(Self, key_pressed, key_released, now),
                  input_branch(Self, key_pressed, key_released))
        /\ UNCHANGED now

\* fn handle_timer_updates(&mut self, ctx)
Tick ==
    /\ Commit(handle_timer_updates(Self, now), "tick")
    /\ UNCHANGED now

\* "Yes, delete" of render_delete_confirmation
DeleteTime ==
    \E index \in 0..Len(records) :
        /\ Commit(delete_time(Self, index),
                  IF index < Len(records) THEN "delete" ELSE "delete_noop")
        /\ UNCHANGED now

\* The +2 and DNF buttons of render_comment_and_penalty_editor
ApplyPenalty ==
    \E index \in 0..Len(records), penalty \in PenaltyOption :
        /\ Commit(apply_penalty(Self, index, penalty),
                  IF index < Len(records) THEN "penalty" ELSE "penalty_noop")
        /\ UNCHANGED now

\* A click in the event selector
SelectEvent ==
    \E i \in 1..Len(available_events) :
        /\ Commit(select_event(Self, available_events[i]), "select_event")
        /\ UNCHANGED now

Handlers ==
    \/ HandleInput
    \/ Tick
    \/ DeleteTime
    \/ ApplyPenalty
    \/ SelectEvent

\* CubeTimer::new without files on disk
Init ==
    /\ now = 0
    /\ state = Default.state
    /\ start_time = Default.start_time
    /\ current_time = Default.current_time
    /\ current_event = Default.current_event
    /\ available_events = Default.available_events
    /\ custom_events = Default.custom_events
    /\ records = Default.records
    /\ statistics = Default.statistics
    /\ space_pressed = Default.space_pressed
    /\ space_hold_start = Default.space_hold_start
    /\ editing_comment_index = Default.editing_comment_index
    /\ comment_text = Default.comment_text
    /\ confirm_delete_index = Default.confirm_delete_index
    /\ key_held = None
    /\ editing_target = None
    /\ last_op = "new"
    /\ last_state = Default.state

Next == Advance(MaxNow) \/ Handlers

Spec == Init /\ [][Next]_vars

\* A frame whose key event handle_space_key hands to handle_space_press
EdgePress == HandleInput /\ last_op' = "press"

\* A frame whose key event handle_space_key hands to handle_space_release
EdgeRelease == HandleInput /\ last_op' = "release"

\* The clock, the keyboard and the ticks, without the history editor
NextTimer ==
    \/ Advance(MaxNow)
    \/ HandleInput
    \/ Tick

\* A session of solves in which press and release edges keep being
\* delivered: the edge the pressed flag lets through is eventually delivered.
SpecAlternating ==
    Init /\ [][NextTimer]_vars /\ WF_vars(EdgePress) /\ WF_vars(EdgeRelease)

\* CubeTimer::new with a records.json on disk
InitLoaded ==
    \E n \in 0..MaxLoaded :
        LET loaded == load_data(Default, LoadedRecords(n))
        IN  /\ now = 0
            /\ state = loaded.state
            /\ start_time = loaded.start_time
            /\ current_time = loaded.current_time
            /\ current_event = loaded.current_event
            /\ available_events = loaded.available_events
            /\ custom_events = loaded.custom_events
            /\ records = loaded.records
            /\ statistics = loaded.statistics
            /\ space_pressed = loaded.space_pressed
            /\ space_hold_start = loaded.space_hold_start
            /\ editing_comment_index = loaded.editing_comment_index
            /\ comment_text = loaded.comment_text
            /\ confirm_delete_index = loaded.confirm_delete_index
            /\ key_held = None
            /\ editing_target = None
            /\ last_op = "new"
            /\ last_state = Default.state

NextLoaded == Advance(MaxNowLoaded) \/ Handlers

SpecLoaded == InitLoaded /\ [][NextLoaded]_vars

TypeOK ==
    /\ now \in 0..MaxNow
    /\ state \in TimerState
    /\ start_time = None \/ start_time[1] \in 0..MaxNow
    /\ space_pressed \in BOOLEAN
    /\ Len(records) <= MaxRecords

\* The texts typed into the name and the moves field of the settings window
TypedNames == {"", "A", "B"}

\* "" and "R, U", each as its comma-separated parts
TypedMoves == { << "" >>, << "R", " U" >> }

\* The "Add Custom Event" button
AddCustomEvent ==
    \E name \in TypedNames, moves \in TypedMoves :
        /\ Len(available_events) < MaxAvailable
        /\ Commit(add_custom_event(Self, name, moves), "add_custom_event")
        /\ UNCHANGED now

\* The "Remove" button next to an existing custom event
RemoveCustomEvent ==
    \E name \in DOMAIN custom_events :
        /\ Commit(remove_custom_event(Self, name), "remove_custom_event")
        /\ UNCHANGED now

NextCustom ==
    \/ Advance(MaxNowCustom)
    \/ Handlers
    \/ AddCustomEvent
    \/ RemoveCustomEvent

\* A session without files on disk that also edits its custom events
SpecCustom == Init /\ [][NextCustom]_vars

\* The names a custom_events.json may hold
LoadedNames == {"A", "B"}

\* remove_custom_event called with a name that is not a key of the map
RemoveUnknownCustomEvent ==
    \E name \in (LoadedNames \cup {"C"}) \ DOMAIN custom_events :
        /\ Commit(remove_custom_event(Self, name),
                  "remove_unknown_custom_event")
        /\ UNCHANGED now

\* CubeTimer::new with any custom_events.json over LoadedNames
InitCustomLoaded ==
    \E names \in SUBSET LoadedNames :
        \E keys \in KeyOrders(CustomEventsFile(names)) :
            LET loaded == load_data_custom(Default, << >>,
                                           CustomEventsFile(names), keys)
            IN  /\ now = 0
                /\ state = loaded.state
                /\ start_time = loaded.start_time
                /\ current_time = loaded.current_time
                /\ current_event = loaded.current_event
                /\ available_events = loaded.available_events
                /\ custom_events = loaded.custom_events
                /\ records = loaded.records
                /\ statistics = loaded.statistics
                /\ space_pressed = loaded.space_pressed
                /\ space_hold_start = loaded.space_hold_start
                /\ editing_comment_index = loaded.editing_comment_index
                /\ comment_text = loaded.comment_text
                /\ confirm_delete_index = loaded.confirm_delete_index
                /\ key_held = None
                /\ editing_target = None
                /\ last_op = "new"
                /\ last_state = Default.state

NextCustomLoaded ==
    \/ NextCustom
    \/ RemoveUnknownCustomEvent

\* A session that starts from a custom_events.json and edits its custom
\* events
SpecCustomLoaded == InitCustomLoaded /\ [][NextCustomLoaded]_vars

\* The key events one frame's input may hold, oldest first, for a key that
\* is up (None) or down at the start of the frame: nothing, one change of
\* the key, or a change and the change back.
FrameEvents(held) ==
    IF is_none(held)
    THEN { << >>, << "press" >>, << "press", "release" >> }
    ELSE { << >>, << "release" >>, << "release", "press" >> }

\* i.key_pressed(Key::Space) and i.key_released(Key::Space) of handle_input
KeyPressed(events) == \E i \in 1..Len(events) : events[i] = "press"

KeyReleased(events) == \E i \in 1..Len(events) : events[i] = "release"

\* The physical key after the events of the frame
KeyAfter(held, events, t) ==
    IF events = << >> THEN held
    ELSE IF events[Len(events)] = "press" THEN Some(t)
    ELSE None

\* handle_input on a frame whose input holds what the physical key did
\* since the last frame
PollFrame ==
    \E events \in FrameEvents(key_held) :
        /\ (KeyPressed(events) /\ ~space_pressed /\ state = "Running")
               => Len(records) < MaxRecords
        /\ CommitFields(
               handle_input(Self, KeyPressed(events), KeyReleased(events), now),
               input_branch(Self, KeyPressed(events), KeyReleased(events)))
        /\ key_held' = KeyAfter(key_held, events, now)
        /\ UNCHANGED << now, editing_target >>

NextKeyboard ==
    \/ Advance(MaxNowKeyboard)
    \/ PollFrame
    \/ Tick

\* A session whose key events come from a physical key
SpecKeyboard == Init /\ [][NextKeyboard]_vars

\* The handlers that edit the history or switch the event while the timer
\* is idle.
HistoryHandlers ==
    \/ DeleteTime
    \/ ApplyPenalty
    \/ SelectEvent

\* CubeTimer::new with a records.json of up to MaxHistory records
InitHistory ==
    \E n \in 0..MaxHistory :
        LET loaded == load_data(Default, LoadedRecords(n))
        IN  /\ now = 0
            /\ state = loaded.state
            /\ start_time = loaded.start_time
            /\ current_time = loaded.current_time
            /\ current_event = loaded.current_event
            /\ available_events = loaded.available_events
            /\ custom_events = loaded.custom_events
            /\ records = loaded.records
            /\ statistics = loaded.statistics
            /\ space_pressed = loaded.space_pressed
            /\ space_hold_start = loaded.space_hold_start
            /\ editing_comment_index = loaded.editing_comment_index
            /\ comment_text = loaded.comment_text
            /\ confirm_delete_index = loaded.confirm_delete_index
            /\ key_held = None
            /\ editing_target = None
            /\ last_op = "new"
            /\ last_state = Default.state

NextHistory == HistoryHandlers

SpecHistory == InitHistory /\ [][NextHistory]_vars

\* The texts typed into the comment editor
TypedComments == {"", "lucky"}

\* The "Save Comment" button of render_comment_and_penalty_editor
UpdateTimeComment ==
    \E index \in 0..Len(records), comment \in TypedComments :
        /\ Commit(update_time_comment(Self, index, comment),
                  IF index < Len(records) THEN "comment" ELSE "comment_noop")
        /\ UNCHANGED now

\* CubeTimer::new with a records.json of up to MaxCommented records
InitComments ==
    \E n \in 0..MaxCommented :
        LET loaded == load_data(Default, LoadedRecords(n))
        IN  /\ now = 0
            /\ state = loaded.state
            /\ start_time = loaded.start_time
            /\ current_time = loaded.current_time
            /\ current_event = loaded.current_event
            /\ available_events = loaded.available_events
            /\ custom_events = loaded.custom_events
            /\ records = loaded.records
            /\ statistics = loaded.statistics
            /\ space_pressed = loaded.space_pressed
            /\ space_hold_start = loaded.space_hold_start
            /\ editing_comment_index = loaded.editing_comment_index
            /\ comment_text = loaded.comment_text
            /\ confirm_delete_index = loaded.confirm_delete_index
            /\ key_held = None
            /\ editing_target = None
            /\ last_op = "new"
            /\ last_state = Default.state

NextComments ==
    \/ DeleteTime
    \/ ApplyPenalty
    \/ UpdateTimeComment

\* A session that only edits its history: delete, penalty and comment
SpecComments == InitComments /\ [][NextComments]_vars

\* CubeTimer::new with a records.json of up to MaxSessionLoaded records and
\* a custom_events.json of at most one event
InitSession ==
    \E n \in 0..MaxSessionLoaded, names \in {{}, {"A"}} :
        LET custom == CustomEventsFile(names)
            keys   == CHOOSE keys \in KeyOrders(custom) : TRUE
            loaded == load_data_custom(Default, LoadedRecords(n), custom, keys)
        IN  /\ now = 0
            /\ state = loaded.state
            /\ start_time = loaded.start_time
            /\ current_time = loaded.current_time
            /\ current_event = loaded.current_event
            /\ available_events = loaded.available_events
            /\ custom_events = loaded.custom_events
            /\ records = loaded.records
            /\ statistics = loaded.statistics
            /\ space_pressed = loaded.space_pressed
            /\ space_hold_start = loaded.space_hold_start
            /\ editing_comment_index = loaded.editing_comment_index
            /\ comment_text = loaded.comment_text
            /\ confirm_delete_index = loaded.confirm_delete_index
            /\ key_held = None
            /\ editing_target = None
            /\ last_op = "new"
            /\ last_state = Default.state

NextSession ==
    \/ Advance(MaxNowSession)
    \/ Handlers
    \/ UpdateTimeComment
    \/ RemoveCustomEvent

\* A session that solves, edits its history and edits its custom events
SpecSession == InitSession /\ [][NextSession]_vars

\* The indices render_times_list shows an entry for: the records of the
\* active event
ShownIndices ==
    {i \in 0..(Len(records) - 1) : records[i + 1].event = current_event}

\* A click on the comment button of an entry: it opens the editor on the
\* entry, or saves the edit when the editor is open on it
ClickCommentButton ==
    \E actual_index \in ShownIndices :
        LET saves == editing_comment_index = Some(actual_index)
        IN  /\ CommitFields(handle_comment_button_click(Self, actual_index),
                            IF saves THEN "comment_save" ELSE "comment_open")
            /\ editing_target' =
                   IF saves THEN None
                   ELSE Some(records[actual_index + 1].time)
            /\ UNCHANGED << now, key_held >>

\* Typing in the text field of the open editor
TypeComment ==
    \E text \in TypedComments :
        /\ is_some(editing_comment_index)
        /\ editing_comment_index[1] \in ShownIndices
        /\ Commit([Self EXCEPT !.comment_text = text], "comment_type")
        /\ UNCHANGED now

\* The tick button of the editor, shown in the entry the editor is open on
SaveComment ==
    /\ is_some(editing_comment_index)
    /\ editing_comment_index[1] \in ShownIndices
    /\ CommitFields(save_comment_click(Self, editing_comment_index[1]),
                    "comment_save")
    /\ editing_target' = None
    /\ UNCHANGED << now, key_held >>

\* The cross button of the editor
CancelComment ==
    /\ is_some(editing_comment_index)
    /\ editing_comment_index[1] \in ShownIndices
    /\ CommitFields(cancel_comment_click(Self), "comment_cancel")
    /\ editing_target' = None
    /\ UNCHANGED << now, key_held >>

\* The bin button of an entry
ClickDeleteButton ==
    \E actual_index \in ShownIndices :
        /\ Commit(delete_button_click(Self, actual_index), "delete_ask")
        /\ UNCHANGED now

\* "Yes, delete" in the confirmation window
ConfirmDelete ==
    /\ is_some(confirm_delete_index)
    /\ Commit(confirm_delete_click(Self),
              IF confirm_delete_index[1] < Len(records)
              THEN "delete" ELSE "delete_noop")
    /\ UNCHANGED now

\* "No, cancel" in the confirmation window
CancelDelete ==
    /\ is_some(confirm_delete_index)
    /\ Commit(cancel_delete_click(Self), "delete_cancel")
    /\ UNCHANGED now

\* CubeTimer::new with a records.json of up to MaxEdited records
InitEditing ==
    \E n \in 0..MaxEdited :
        LET loaded == load_data(Default, LoadedRecords(n))
        IN  /\ now = 0
            /\ state = loaded.state
            /\ start_time = loaded.start_time
            /\ current_time = loaded.current_time
            /\ current_event = loaded.current_event
            /\ available_events = loaded.available_events
            /\ custom_events = loaded.custom_events
            /\ records = loaded.records
            /\ statistics = loaded.statistics
            /\ space_pressed = loaded.space_pressed
            /\ space_hold_start = loaded.space_hold_start
            /\ editing_comment_index = loaded.editing_comment_index
            /\ comment_text = loaded.comment_text
            /\ confirm_delete_index = loaded.confirm_delete_index
            /\ key_held = None
            /\ editing_target = None
            /\ last_op = "new"
            /\ last_state = Default.state

NextEditing ==
    \/ ClickCommentButton
    \/ TypeComment
    \/ SaveComment
    \/ CancelComment
    \/ ClickDeleteButton
    \/ ConfirmDelete
    \/ CancelDelete

\* A session in the record editor of the times panel
SpecEditing == InitEditing /\ [][NextEditing]_vars

---------------------------------------------------------------------------
(* Timer state machine: properties *)

\* The program fields a handler may change.
fields == << state, start_time, current_time, current_event,
             available_events, custom_events, records, statistics,
             space_pressed, space_hold_start, editing_comment_index,
             comment_text, confirm_delete_index >>

\* The step handles a press edge / a release edge.
PressHandled == last_op' = "press"

ReleaseHandled == last_op' = "release"

\* C1: a press edge handled while Running stops the timer, clears the start
\* instant and appends exactly one record, with duration press time - start
\* instant and no penalty, leaving every earlier record as it was.
C1_PressWhileRunning ==
    [][(PressHandled /\ state = "Running") =>
          /\ state' = "Stopped"
          /\ start_time' = None
          /\ is_some(start_time)
          /\ Len(records') = Len(records) + 1
          /\ SubSeq(records', 1, Len(records)) = records
          /\ records'[Len(records')].time = now - start_time[1]
          /\ records'[Len(records')].penalty = None]_vars

C1_Witness ==
    /\ last_op = "press"
    /\ state = "Stopped"
    /\ records # << >>
    /\ records[Len(records)].time > 0
    /\ records[Len(records)].penalty = None

\* C2: a release edge handled in Preparing after a hold of at least the
\* threshold (boundary included) starts the timer at the release time with
\* zero elapsed; a hold of threshold - 1 ms does not start it.
C2_HoldThreshold ==
    [][(ReleaseHandled /\ state = "Preparing" /\ is_some(space_hold_start)) =>
          /\ (now - space_hold_start[1] >= KeyPreparationTime) =>
                 /\ state' = "Running"
                 /\ start_time' = Some(now)
                 /\ current_time' = 0
          /\ (now - space_hold_start[1] = KeyPreparationTime - 1) =>
                 state' # "Running"]_vars

\* The key went down at 0 and came up at exactly the threshold.
C2_Witness ==
    /\ last_op = "release"
    /\ state = "Running"
    /\ now = KeyPreparationTime
    /\ start_time = Some(now)
    /\ current_time = 0

\* C3: a press handled in Ready and the release that follows it after a hold
\* shorter than the threshold bring the phase back to Ready; neither edge
\* changes history or statistics, and the start instant stays absent.
C3_ShortHold ==
    [][/\ (PressHandled /\ state = "Ready") =>
              /\ state' = "Preparing"
              /\ UNCHANGED << records, statistics, start_time >>
       /\ (/\ ReleaseHandled
           /\ state = "Preparing"
           /\ is_some(space_hold_start)
           /\ now - space_hold_start[1] < KeyPreparationTime) =>
              /\ state' = "Ready"
              /\ start_time' = None
              /\ UNCHANGED << records, statistics, start_time >>]_vars

\* Before the threshold has passed once, Ready after a release can only
\* follow a short hold.
C3_Witness ==
    /\ last_op = "release"
    /\ state = "Ready"
    /\ now = KeyPreparationTime - 1
    /\ start_time = None
    /\ records = << >>

\* C4: the start instant is present if and only if the phase is Running.
C4_StartIffRunning == is_some(start_time) <=> state = "Running"

C4_Witness ==
    /\ last_op = "tick"
    /\ state = "Running"
    /\ is_some(start_time)
    /\ current_time > 0

\* C5 as stated: the hold-start instant is present if and only if the phase
\* is Preparing.
C5_HoldIffPreparing == is_some(space_hold_start) <=> state = "Preparing"

\* C5, amended: the hold-start instant is present if and only if the phase is
\* Preparing or Stopped (the key is down); it is absent in Ready and Running.
C5_HoldIffKeyDown ==
    is_some(space_hold_start) <=> state \in {"Preparing", "Stopped"}

C5_Witness ==
    /\ last_op = "press"
    /\ state = "Stopped"
    /\ is_some(space_hold_start)

\* C6: no handled press or release leaves both the start instant and the
\* hold-start instant populated.
C6_NotBothInstants == ~(is_some(start_time) /\ is_some(space_hold_start))

\* A release has just populated the start instant.
C6_Witness ==
    /\ last_op = "release"
    /\ state = "Running"
    /\ is_some(start_time)
    /\ is_none(space_hold_start)

\* C7: a press delivered while the pressed flag is already true, and a release
\* delivered while it is already false, change no field of the timer.
C7_RepeatedEdgeNoOp ==
    [][(last_op' \in {"press_ignored", "release_ignored"}) =>
          UNCHANGED fields]_vars

\* A second press was delivered during a hold.
C7_Witness ==
    /\ last_op = "press_ignored"
    /\ space_pressed
    /\ state = "Preparing"
    /\ is_some(space_hold_start)
    /\ space_hold_start[1] < now

\* C18: a press edge handled in Ready or Stopped moves the phase to Preparing
\* and records the press time as the hold-start instant; it appends no record
\* and leaves the start instant as it was.
C18_PressStartsPreparing ==
    [][(PressHandled /\ state \in {"Ready", "Stopped"}) =>
          /\ state' = "Preparing"
          /\ space_hold_start' = Some(now)
          /\ UNCHANGED << records, start_time >>]_vars

C18_Witness ==
    /\ last_op = "press"
    /\ last_state = "Ready"
    /\ state = "Preparing"
    /\ now > 0
    /\ space_hold_start = Some(now)
    /\ records # << >>

\* C19: a release edge handled in Stopped moves the phase to Ready and never
\* starts the timer, however long the key was held; history and statistics
\* stay as they were.
C19_ReleaseInStopped ==
    [][(ReleaseHandled /\ state = "Stopped") =>
          /\ state' = "Ready"
          /\ start_time' = None
          /\ UNCHANGED << records, statistics >>]_vars

C19_Witness ==
    /\ last_op = "release"
    /\ last_state = "Stopped"
    /\ state = "Ready"
    /\ start_time = None
    /\ records # << >>

\* The step delivers a press edge / a release edge to handle_space_key.
PressDelivered == last_op' \in {"press", "press_ignored"}

ReleaseDelivered == last_op' \in {"release", "release_ignored"}

\* C20: a release delivered in Ready or Running and a press delivered in
\* Preparing leave the phase, the start instant, the elapsed time, history and
\* statistics unchanged.
C20_UnlistedEdgesIgnored ==
    [][(\/ ReleaseDelivered /\ state \in {"Ready", "Running"}
        \/ PressDelivered /\ state = "Preparing") =>
          UNCHANGED << state, start_time, current_time, records,
                       statistics >>]_vars

\* A release was delivered while a solve was running.
C20_Witness ==
    /\ last_op = "release_ignored"
    /\ last_state = "Running"
    /\ state = "Running"
    /\ is_some(start_time)

\* C21: a tick while Running sets the elapsed time to tick time - start
\* instant, whatever the elapsed time was before; a tick in any other phase
\* leaves the elapsed time as it was.  No tick changes the phase or history.
C21_TickRecomputesElapsed ==
    [][(last_op' = "tick") =>
          /\ UNCHANGED << state, records >>
          /\ IF state = "Running"
             THEN /\ is_some(start_time)
                  /\ current_time' = now - start_time[1]
             ELSE UNCHANGED current_time]_vars

\* A tick of a solve that has been running for more than two clock steps.
C21_Witness ==
    /\ last_op = "tick"
    /\ state = "Running"
    /\ is_some(start_time)
    /\ current_time = now - start_time[1]
    /\ current_time > KeyPreparationTime

\* C25: the pressed flag is true exactly when the phase is Preparing or
\* Stopped, and false exactly when the phase is Ready or Running.
C25_FlagFollowsPhase == space_pressed <=> state \in {"Preparing", "Stopped"}

\* The second hold of a session, after a solve was recorded.
C25_Witness ==
    /\ state = "Preparing"
    /\ space_pressed
    /\ last_op = "press"
    /\ records # << >>

\* C26: Preparing is only ever entered from Ready, and the phase that follows
\* Stopped is always Ready; a release that starts the timer ends a hold
\* whose press was handled in Ready.
C26_PreparingOnlyFromReady ==
    [][/\ (state' = "Preparing" /\ state # "Preparing") =>
              /\ state = "Ready"
              /\ PressHandled
       /\ (state = "Stopped" /\ state' # "Stopped") => state' = "Ready"
       /\ (state = "Preparing" /\ last_op = "press") =>
              last_state = "Ready"]_vars

\* The hold that follows a recorded solve began in Ready, which the release
\* in Stopped had reached.
C26_Witness ==
    /\ state = "Preparing"
    /\ last_op = "press"
    /\ last_state = "Ready"
    /\ records # << >>
    /\ statistics.best # None

\* The phase changes a handled edge may make.
CycleEdges ==
    { << "Ready", "Preparing" >>, << "Preparing", "Running" >>,
      << "Preparing", "Ready" >>, << "Running", "Stopped" >>,
      << "Stopped", "Ready" >> }

\* Every path of CycleEdges that leaves phase s is in Ready after at most n
\* edges.
RECURSIVE ReadyWithin(_, _)
ReadyWithin(s, n) ==
    /\ n > 0
    /\ \A e \in CycleEdges :
           e[1] = s => (e[2] = "Ready" \/ ReadyWithin(e[2], n - 1))

\* Some edge, delivered now, changes the phase.
SomeEdgeChangesPhase ==
    \E pressed \in BOOLEAN :
        handle_space_key(Self, pressed, now).state # state

\* C24: the machine starts in Ready; in every reachable state some edge
\* changes the phase; every handled edge follows the cycle Ready, Preparing,
\* Running or Ready, Stopped, Ready, which is back in Ready after at most
\* four edges; and while edges keep being delivered Ready recurs for ever.
C24_ReadyRecurs ==
    /\ state = "Ready"
    /\ [](SomeEdgeChangesPhase /\ ReadyWithin(state, 4))
    /\ [][(last_op' \in {"press", "release"}) =>
              << state, state' >> \in CycleEdges]_vars
    /\ []<>(state = "Ready")

\* A full cycle has been walked: the release in Stopped brought the phase
\* back to Ready after a recorded solve.
C24_Witness ==
    /\ state = "Ready"
    /\ last_op = "release"
    /\ last_state = "Stopped"
    /\ records # << >>

\* The step is a frame of handle_input.
Polled ==
    last_op' \in {"press", "release", "press_ignored", "release_ignored",
                  "no_key"}

\* C27: after every frame of handle_input the pressed flag equals the state
\* of the physical key, also after a frame that holds both a press and a
\* release; and the timer only enters Running on the release of a physical
\* hold of at least the threshold.
C27_FlagFollowsKey ==
    [][Polled =>
          /\ space_pressed' = is_some(key_held')
          /\ (state' = "Running" /\ state # "Running") =>
                 /\ is_some(key_held)
                 /\ now - key_held[1] >= KeyPreparationTime]_vars

---------------------------------------------------------------------------
(* Statistics engine: properties *)

\* The durations of the records of the active event that are not DNF.
NonDnfTimes ==
    LET kept == SelectSeq(records,
                    LAMBDA r : r.event = current_event /\ r.penalty # Some("DNF"))
    IN  [i \in 1..Len(kept) |-> kept[i].time]

\* C8: best, worst and mean are those of the records of the active event that
\* are not DNF, +2 records included with their stored duration.
C8_Plus2Counted ==
    IF NonDnfTimes = << >>
    THEN /\ statistics.best = None
         /\ statistics.worst = None
         /\ statistics.mean = None
    ELSE /\ statistics.best = Some(Min(NonDnfTimes))
         /\ statistics.worst = Some(Max(NonDnfTimes))
         /\ statistics.mean = Some(Sum(NonDnfTimes) \div Len(NonDnfTimes))

\* C9: a rolling average for window W has a value only if at least W records
\* of the active event currently qualify.
C9_AverageOnlyWithFullWindow ==
    /\ is_some(statistics.current_ao5) => Len(NonDnfTimes) >= 5
    /\ is_some(statistics.current_ao12) => Len(NonDnfTimes) >= 12
    /\ is_some(statistics.current_ao100) => Len(NonDnfTimes) >= 100

\* The step runs calculate_statistics.
Recomputed ==
    \/ last_op' \in {"delete", "penalty", "select_event"}
    \/ last_op' = "press" /\ state = "Running"

\* The snapshot of a session that computes its statistics for the first time
\* on the history and active event reached by the step.
FreshStatistics ==
    calculate_statistics([Self EXCEPT !.statistics = NoStatistics]).statistics

\* C10: the snapshot a recompute leaves is the one any other session with the
\* same history and active event holds, whatever snapshot came before.
C10_SnapshotFromHistoryOnly ==
    [][Recomputed => statistics' = FreshStatistics']_vars

\* The snapshot computed for the first time on history h, with the active
\* event of the state.
SnapshotOf(h) ==
    calculate_statistics(
        [Self EXCEPT !.statistics = NoStatistics, !.records = h]).statistics

\* C11: applying DNF to a record that counts in the statistics of the active
\* event leaves the snapshot of the history without that record, in every
\* field.
C11_DnfRemovesContribution ==
    [][\A i \in 1..Len(records) :
          (/\ last_op' = "penalty"
           /\ records[i].event = current_event
           /\ records[i].penalty = None
           /\ records' = [records EXCEPT ![i].penalty = Some("DNF")])
          => statistics' = SnapshotOf(Remove(records, i - 1))]_vars

\* C12: best, when present, is at most the duration of every record of the
\* active event that is not DNF, +2 records included.
C12_BestBelowAllNonDnf ==
    is_some(statistics.best) =>
        \A i \in 1..Len(NonDnfTimes) : statistics.best[1] <= NonDnfTimes[i]

\* C15: a recompute that finds at least W records of the active event that
\* are not DNF leaves a value in the average for W.
C15_FullWindowHasAverage ==
    [][Recomputed =>
          /\ Len(NonDnfTimes') >= 5 => is_some(statistics'.current_ao5)
          /\ Len(NonDnfTimes') >= 12 => is_some(statistics'.current_ao12)
          /\ Len(NonDnfTimes') >= 100 => is_some(statistics'.current_ao100)]_vars

\* trim = ceil(W * 0.05) for the three windows
TrimOf(w) == CASE w = 5 -> 1 [] w = 12 -> 1 [] w = 100 -> 5

\* The trimmed mean of the w most recent entries of times.
TrimmedMeanOfLast(times, w) ==
    LET window == Sort(SubSeq(times, Len(times) - w + 1, Len(times)))
        kept   == SubSeq(window, TrimOf(w) + 1, w - TrimOf(w))
    IN  Sum(kept) \div Len(kept)

\* C16: an average for W computed on at least W qualifying records is the
\* trimmed mean of the W most recent of them.
C16_AverageIsTrimmedMean ==
    [][Recomputed =>
          /\ (Len(NonDnfTimes') >= 5 /\ is_some(statistics'.current_ao5)) =>
                 statistics'.current_ao5 = Some(TrimmedMeanOfLast(NonDnfTimes', 5))
          /\ (Len(NonDnfTimes') >= 12 /\ is_some(statistics'.current_ao12)) =>
                 statistics'.current_ao12 = Some(TrimmedMeanOfLast(NonDnfTimes', 12))
          /\ (Len(NonDnfTimes') >= 100 /\ is_some(statistics'.current_ao100)) =>
                 statistics'.current_ao100 = Some(TrimmedMeanOfLast(NonDnfTimes', 100))]_vars

\* C17: on a non-empty filtered set best is its minimum, worst its maximum
\* and mean its sum divided by its count, truncated; on an empty one the whole
\* snapshot is without value.
C17_BasicStatistics ==
    IF NonDnfTimes = << >>
    THEN statistics = NoStatistics
    ELSE /\ is_some(statistics.best) /\ is_some(statistics.worst)
         /\ is_some(statistics.mean)
         /\ \E i \in 1..Len(NonDnfTimes) : NonDnfTimes[i] = statistics.best[1]
         /\ \E i \in 1..Len(NonDnfTimes) : NonDnfTimes[i] = statistics.worst[1]
         /\ \A i \in 1..Len(NonDnfTimes) :
                /\ statistics.best[1] <= NonDnfTimes[i]
                /\ NonDnfTimes[i] <= statistics.worst[1]
         /\ statistics.mean[1] * Len(NonDnfTimes) <= Sum(NonDnfTimes)
         /\ Sum(NonDnfTimes) < (statistics.mean[1] + 1) * Len(NonDnfTimes)

\* C13: after the active event changes, by the event selector or by the
\* removal of the active custom event, best, worst and mean are those of the
\* records of the new active event.
C13_EventChangeRecomputes ==
    [][current_event' # current_event =>
          /\ statistics'.best = FreshStatistics'.best
          /\ statistics'.worst = FreshStatistics'.worst
          /\ statistics'.mean = FreshStatistics'.mean]_vars

\* The step is a delete, a penalty or a comment edit at an index that is
\* not below the length of the history.
OutOfRangeEdit ==
    last_op' \in {"delete_noop", "penalty_noop", "comment_noop"}

\* C14: a delete, a comment edit or a penalty change at an index at or
\* beyond the length of the history changes neither the history nor the
\* snapshot nor any other field.
C14_OutOfRangeIsNoOp == [][OutOfRangeEdit => UNCHANGED fields]_vars

\* A comment edit beyond the end of a history that holds a commented record
\* and a penalised one.
C14_Witness ==
    /\ last_op = "comment_noop"
    /\ \E i \in 1..Len(records) : records[i].comment # ""
    /\ \E i \in 1..Len(records) : is_some(records[i].penalty)

---------------------------------------------------------------------------
(* History: properties *)

\* records' is records with the field of one record replaced and nothing
\* else changed.
OnlyFieldChanged(field) ==
    /\ Len(records') = Len(records)
    /\ \E i \in 1..Len(records) :
           /\ \A j \in (1..Len(records)) \ {i} : records'[j] = records[j]
           /\ \A f \in (DOMAIN records[i]) \ {field} :
                  records'[i][f] = records[i][f]

Without(history, index) ==
    SubSeq(history, 1, index) \o SubSeq(history, index + 2, Len(history))

C28_EditKeepsItsRecord ==
    [][(last_op' = "comment_save") =>
          /\ is_some(editing_target)
          /\ Len(records') = Len(records)
          /\ \A i \in 1..Len(records) :
                 IF records[i].time = editing_target[1]
                 THEN records'[i] = [records[i] EXCEPT !.comment = comment_text]
                 ELSE records'[i] = records[i]]_vars

---------------------------------------------------------------------------
(* Custom events: properties *)

\* The entries of the list of available events
Available == {available_events[i] : i \in 1..Len(available_events)}

\* C29: the list of available events has no entry twice, and its custom
\* entries are Custom(name) for exactly the keys of the custom-event map.
C29_CustomEventsUnique ==
    /\ \A i, j \in 1..Len(available_events) :
           i # j => available_events[i] # available_events[j]
    /\ Available \ {StandardEvents[i] : i \in 1..Len(StandardEvents)}
           = {Custom(name) : name \in DOMAIN custom_events}

\* C30: the active event is always in the list of available events, which
\* is never empty; a removal that changes the active event sets it to the
\* first entry of the list, a standard event.
C30_ActiveEventAvailable ==
    /\ [](available_events # << >> /\ current_event \in Available)
    /\ [][(/\ last_op' \in {"remove_custom_event",
                             "remove_unknown_custom_event"}
           /\ current_event' # current_event) =>
              /\ current_event' = available_events'[1]
              /\ current_event' = StandardEvents[1]
              /\ current_event \notin
                     {available_events'[i] : i \in 1..Len(available_events')}
          ]_vars

\* The active custom event was just removed: the active event is the first
\* standard event again while the snapshot is still that of the removed
\* event, which had a solve.
C30_Witness ==
    /\ last_op = "remove_custom_event"
    /\ current_event = StandardEvents[1]
    /\ CurrentEventTimes(Self) = << >>
    /\ statistics.best # None
    /\ \E i \in 1..Len(records) : records[i].event \notin Available

=============================================================================
